---------------------------- MODULE Spec2Model ----------------------------
(***************************************************************************)
(* A model of smarty.py: the SMARTS rule-based atom typer (AtomTyper), its *)
(* rule file reader (AtomTyper.read_typelist), the reference scorer        *)
(* (AtomTypeSampler.best_match_reference_types) and the Monte Carlo atom   *)
(* type sampler (AtomTypeSampler.sample_atomtypes, run).                   *)
(*                                                                         *)
(* Encoding of the Python values:                                          *)
(*   - a type name is the sequence of its whitespace-free words, so that   *)
(*     typename + ' ' + decorator_typename is concatenation of sequences   *)
(*     and the empty string "" is the empty sequence;                      *)
(*   - a SMARTS string '[p1&p2&...]' is the sequence of its primitives, so *)
(*     that '[' + inner + '&' + decorator + ']' is concatenation;          *)
(*   - a corpus is the atoms 1..NAtoms, grouped in molecules by MolOf; the *)
(*     string data stored under the typing tag is a function atom -> name; *)
(*   - the substructure search (OESubSearch.Match) is the variable match:  *)
(*     for each SMARTS primitive, the set of atoms it matches.             *)
(*   - a file is the sequence of its lines, a line the sequence of its     *)
(*     characters; the rule lists of the sampler are taken as read.        *)
(*                                                                         *)
(* Modelled configuration: verbose=False, no replacements file, base       *)
(* patterns of the bracketed form '[...]' (re.match at line 411 succeeds), *)
(* temperature >= 0, reference molecules of the corpus' shape when given.  *)
(***************************************************************************)
EXTENDS Integers, Sequences, FiniteSets, TLC

\* ------------------------------------------------------------------------
\* Bounds of the model
\* ------------------------------------------------------------------------

\* Number of atoms in the corpus.
NAtoms == 3

\* Longest rule list given to a direct call of type_molecules.
MaxTypes == 3

\* Number of iterations requested of run().
MaxIter == 3

\* ------------------------------------------------------------------------
\* Values
\* ------------------------------------------------------------------------

\* Python's None, in a slot that otherwise holds a sequence.
None == <<>>

\* The string "" that assignTypes stores before it applies the rules.
EmptyType == <<>>

Atoms == 1 .. NAtoms

\* Molecules hold two atoms each (the last one may hold one).
MolOf(a) == (a + 1) \div 2

Molecules == {MolOf(a) : a \in Atoms}

AtomsOf(m) == {a \in Atoms : MolOf(a) = m}

\* SMARTS primitives. "*" is the wildcard and matches every atom.
Primitives == {"*", "#6", "X4", "H1"}

\* The oracles: what each primitive matches in the corpus.
Oracles ==
    {m \in [Primitives -> SUBSET Atoms] : m["*"] = Atoms}

Rule(smarts, typename) == <<smarts, typename>>

VARIABLES
    match,                    \* the corpus, as seen by OESubSearch.Match
    atomtypes,                \* self.atomtypes: list of [smarts, typename]
    decorators,               \* self.decorators: list of [smarts, typename]
    molecules,                \* self.molecules: the type stored on each atom
    reference,                \* self.reference_typed_molecules (or None)
    atom_type_matches,        \* self.atom_type_matches
    total_atom_type_matches,  \* self.total_atom_type_matches
    temperature,              \* self.temperature
    pc,                       \* where the caller is
    iteration,                \* run(): iterations performed so far
    last,                     \* what the last call did and returned
    basetypes,                \* the rules read from the basetypes file
    caller_molecules,         \* the types on the molecules the caller passed
    file                      \* the file read_typelist is asked to read

vars == <<match, atomtypes, decorators, molecules, reference,
          atom_type_matches, total_atom_type_matches, temperature,
          pc, iteration, last, basetypes, caller_molecules, file>>

\* ------------------------------------------------------------------------
\* AtomTyper
\* ------------------------------------------------------------------------

\* pat.Match(mol): the atoms covered by the matches of a SMARTS pattern, a
\* conjunction ('&') of primitives.
Covered(m, smarts) ==
    {a \in Atoms : \A k \in 1 .. Len(smarts) : a \in m[smarts[k]]}

\* One pass of the loop "for pat,type,smarts in self.smartsList" over an atom
\* whose tag holds cur: a matching rule overwrites the tag.
ApplyRuleFirstWins(m, rule, a, cur) ==
    IF a \in Covered(m, rule[1]) /\ cur = EmptyType THEN rule[2] ELSE cur

ApplyRule(m, rule, a, cur) ==
    IF a \in Covered(m, rule[1]) THEN rule[2] ELSE cur

\* The tag of atom a after rules i .. Len(typelist) have been applied in
\* list order, starting from tag cur.
RECURSIVE ApplyRules(_, _, _, _, _)
ApplyRules(m, typelist, i, a, cur) ==
    IF i > Len(typelist) THEN cur
    ELSE ApplyRules(m, typelist, i + 1, a, ApplyRule(m, typelist[i], a, cur))

\* "Assign null types": atom.SetStringData(self.pattyTag, "") replaces the
\* tag cur an atom carried before the call.
NullTypeKeepsTag(cur) == cur

NullType(cur) == EmptyType

\* The tags of one molecule after the null assignment and the rule loop.
TypesAfterRules(m, typelist, types) ==
    [a \in Atoms |-> ApplyRules(m, typelist, 1, a, NullType(types[a]))]

\* "Check if any atoms remain unassigned": the first atom of molecule mol, in
\* atom order, whose tag is still "" (0 if there is none).
FirstUnassigned(types, mol) ==
    LET bad == {a \in AtomsOf(mol) : types[a] = EmptyType}
    IN  IF bad = {} THEN 0 ELSE CHOOSE a \in bad : \A b \in bad : a <= b

\* assignTypes(mol) on the corpus tags: the tags afterwards and the
\* TypingException raised (None, or <<molecule, atom>>).
assignTypesIgnoreUnassigned(m, typelist, types, mol) ==
    [types |-> [a \in Atoms |-> IF MolOf(a) = mol
                                 THEN TypesAfterRules(m, typelist, types)[a]
                                 ELSE types[a]],
     exc |-> None]

assignTypes(m, typelist, types, mol) ==
    LET after == [a \in Atoms |-> IF MolOf(a) = mol
                                  THEN TypesAfterRules(m, typelist, types)[a]
                                  ELSE types[a]]
        bad == FirstUnassigned(after, mol)
    IN  [types |-> after,
         exc |-> IF bad = 0 THEN None ELSE <<mol, bad>>]

\* type_molecules: assignTypes on each molecule in order; the first
\* TypingException ends the loop and leaves the later molecules as they were.
RECURSIVE TypeFrom(_, _, _, _)
TypeFrom(m, typelist, types, mol) ==
    IF mol \notin Molecules THEN [types |-> types, exc |-> None]
    ELSE LET r == assignTypes(m, typelist, types, mol)
         IN  IF r.exc # None THEN r
             ELSE TypeFrom(m, typelist, r.types, mol + 1)

type_molecules(m, typelist, types) == TypeFrom(m, typelist, types, 1)

\* A line of a file is the sequence of its characters, a token the sequence
\* of the characters of a word. The characters string.split separates on:
Whitespace == {" ", "\t", "\n"}

\* line.find(ch): the 0-based index of the first ch, or -1.
Find(line, ch) ==
    LET at == {k \in 1 .. Len(line) : line[k] = ch}
    IN  IF at = {} THEN -1
        ELSE (CHOOSE k \in at : \A j \in at : k <= j) - 1

\* "Strip trailing comments": line[0:index] when a '%' was found.
StripCommentKeeps(line) == line

StripComment(line) ==
    LET index == Find(line, "%")
    IN  IF index # -1 THEN SubSeq(line, 1, index) ELSE line

\* string.split(line): the maximal runs of characters that are not
\* whitespace, in order. The scan is at position i, word holds the run in
\* progress and tokens the runs already closed.
RECURSIVE SplitFrom(_, _, _, _)
SplitFrom(line, i, word, tokens) ==
    LET closed == IF word = <<>> THEN tokens ELSE Append(tokens, word)
    IN  IF i > Len(line) THEN closed
        ELSE IF line[i] \in Whitespace
        THEN SplitFrom(line, i + 1, <<>>, closed)
        ELSE SplitFrom(line, i + 1, Append(word, line[i]), tokens)

Split(line) == SplitFrom(line, 1, <<>>, <<>>)

\* The loop "for line in lines": typelist after lines i .. Len(lines).
RECURSIVE ReadLines(_, _, _)
ReadLines(lines, i, typelist) ==
    IF i > Len(lines) THEN typelist
    ELSE LET tokens == Split(StripComment(lines[i]))
         IN  ReadLines(lines, i + 1,
                       IF Len(tokens) = 2
                       THEN Append(typelist, <<tokens[1], tokens[2]>>)
                       ELSE typelist)

\* read_typelist(filename): returns None for no filename, raises Exception
\* for a file that does not exist, else returns the typelist.
read_typelist(f) ==
    IF ~f.given THEN [returned |-> "None", typelist |-> <<>>]
    ELSE IF ~f.exists THEN [returned |-> "Exception", typelist |-> <<>>]
    ELSE [returned |-> "typelist", typelist |-> ReadLines(f.lines, 1, <<>>)]


\* ------------------------------------------------------------------------
\* AtomTypeSampler.best_match_reference_types
\* ------------------------------------------------------------------------

\* current_atomtypes = [ typename for (smarts, typename) in atomtypes ]
CurrentAtomtypes(typelist) == [i \in 1 .. Len(typelist) |-> typelist[i][2]]

SeqRange(s) == {s[i] : i \in 1 .. Len(s)}

\* self.reference_atomtypes: the set of the reference atoms' types.
ReferenceAtomtypes(ref) == {ref[a] : a \in Atoms}

\* atoms_in_common[(current_atomtype, reference_atomtype)] after the loop over
\* the zipped molecules and atoms.
atoms_in_common(types, ref, c, r) ==
    Cardinality({a \in Atoms : types[a] = c /\ ref[a] = r})

\* The nodes of the networkx graph are the type NAMES: a name that is both a
\* current and a reference type is one node.
GraphNodes(names, refnames) == SeqRange(names) \cup refnames

\* The edges added by graph.add_edge, as unordered pairs (a set of one name
\* is a self-loop).
GraphEdges(names, refnames) ==
    {{c, r} : c \in SeqRange(names), r \in refnames}

LastIndex(names, c) ==
    CHOOSE i \in 1 .. Len(names) :
        names[i] = c /\ \A j \in 1 .. Len(names) : names[j] = c => j <= i

\* graph[u][v]['weight'] once every add_edge has run: the graph is
\* undirected, so when both (u, v) and (v, u) are (current, reference) pairs
\* the later add_edge, the one whose current type comes later in the outer
\* loop, has overwritten the weight.
EdgeWeight(names, refnames, types, ref, u, v) ==
    LET uv == u \in SeqRange(names) /\ v \in refnames
        vu == v \in SeqRange(names) /\ u \in refnames
    IN  IF uv /\ vu
        THEN IF LastIndex(names, u) >= LastIndex(names, v)
             THEN atoms_in_common(types, ref, u, v)
             ELSE atoms_in_common(types, ref, v, u)
        ELSE IF uv THEN atoms_in_common(types, ref, u, v)
        ELSE atoms_in_common(types, ref, v, u)

WeightOfEdge(names, refnames, types, ref, e) ==
    LET u == CHOOSE x \in e : TRUE
        v == CHOOSE x \in e : e = {u, x}
    IN  EdgeWeight(names, refnames, types, ref, u, v)

\* The graph handed to networkx: its nodes and its weighted edges.
Graph(names, refnames, types, ref) ==
    [nodes |-> GraphNodes(names, refnames),
     weight |-> [e \in GraphEdges(names, refnames) |->
                    WeightOfEdge(names, refnames, types, ref, e)]]

\* The matchings made of edges of E: sets of edges that share no node.
RECURSIVE MatchingsOf(_)
MatchingsOf(E) ==
    IF E = {} THEN {{}}
    ELSE LET e == CHOOSE x \in E : TRUE
         IN  MatchingsOf(E \ {e})
             \cup {M \cup {e} :
                      M \in MatchingsOf({f \in E : f \cap e = {}})}

RECURSIVE MatchingWeight(_, _)
MatchingWeight(weight, M) ==
    IF M = {} THEN 0
    ELSE LET e == CHOOSE x \in M : TRUE
         IN  weight[e] + MatchingWeight(weight, M \ {e})

\* nx.algorithms.max_weight_matching(graph, maxcardinality=False): the
\* matchings of maximum weight, self-loops being ignored; which of them is
\* returned is the library's choice.
max_weight_matching(graph) ==
    LET all == MatchingsOf({e \in DOMAIN graph.weight : Cardinality(e) = 2})
        w == [M \in all |-> MatchingWeight(graph.weight, M)]
        best == CHOOSE x \in {w[M] : M \in all} : \A N \in all : w[N] <= x
    IN  {M \in all : w[M] = best}

\* mate: the dictionary node -> partner, holding both ends of every edge.
InMate(M, n) == \E e \in M : n \in e

Mate(M, n) ==
    LET e == CHOOSE x \in M : n \in x
    IN  CHOOSE x \in e : x # n

\* "Compute match dictionary and total number of matches": one entry per
\* element of current_atomtypes, in list order.
MatchEntry(graph, M, c) ==
    IF InMate(M, c)
    THEN <<c, Mate(M, c), graph.weight[{c, Mate(M, c)}]>>
    ELSE <<c, None, None>>

RECURSIVE TotalFrom(_, _)
TotalFrom(entries, i) ==
    IF i > Len(entries) THEN 0
    ELSE (IF entries[i][2] # None THEN entries[i][3] ELSE 0)
         + TotalFrom(entries, i + 1)

\* The pair (atom_type_matches, total_atom_type_matches) returned when the
\* library returns matching M.
MatchResult(names, graph, M) ==
    LET entries == [i \in 1 .. Len(names) |-> MatchEntry(graph, M, names[i])]
    IN  [matches |-> entries, total |-> TotalFrom(entries, 1)]

\* The results best_match_reference_types can return when reference
\* molecules were given.
best_match_reference_types(typelist, types, ref) ==
    LET names == CurrentAtomtypes(typelist)
        graph == Graph(names, ReferenceAtomtypes(ref), types, ref)
    IN  {MatchResult(names, graph, M) : M \in max_weight_matching(graph)}

\* ------------------------------------------------------------------------
\* Direct calls of type_molecules (specification SpecAssign)
\* ------------------------------------------------------------------------

\* All sequences over S of length lo .. hi.
SeqsOf(S, lo, hi) == UNION {[1 .. n -> S] : n \in lo .. hi}

AssignRules ==
    {Rule(<<"*">>, <<"g">>), Rule(<<"#6">>, <<"c">>),
     Rule(<<"#6", "X4">>, <<"c", "x">>)}

AssignOracles == {m \in Oracles : m["H1"] = {}}

\* What the atoms carry before the call: nothing yet, or stale types.
PriorTypes == {[a \in Atoms |-> EmptyType], [a \in Atoms |-> <<"stale">>]}

NoCall == [op |-> "none"]

\* No file is being read: the rule lists are already in memory.
NoFile == [given |-> FALSE, exists |-> FALSE, lines |-> <<>>]

InitAssign ==
    /\ match \in AssignOracles
    /\ atomtypes \in SeqsOf(AssignRules, 0, MaxTypes)
    /\ molecules \in PriorTypes
    /\ decorators = <<>>
    /\ reference = None
    /\ atom_type_matches = None
    /\ total_atom_type_matches = None
    /\ temperature = 0
    /\ pc = "typing"
    /\ iteration = 0
    /\ last = NoCall
    /\ basetypes = <<>>
    /\ caller_molecules = molecules
    /\ file = NoFile

TypeMoleculesCall ==
    /\ pc = "typing"
    /\ LET r == type_molecules(match, atomtypes, molecules)
       IN  /\ molecules' = r.types
           /\ caller_molecules' = r.types
           /\ last' = [op |-> "type_molecules", exc |-> r.exc,
                       prior |-> molecules]
    /\ pc' = "typed"
    /\ UNCHANGED <<match, atomtypes, decorators, reference, atom_type_matches,
                   total_atom_type_matches, temperature, iteration,
                   basetypes, file>>

NextAssign == TypeMoleculesCall

SpecAssign == InitAssign /\ [][NextAssign]_vars

\* The rules of a list that match atom a, by position.
MatchingRules(m, typelist, a) ==
    {i \in 1 .. Len(typelist) : a \in Covered(m, typelist[i][1])}

Max(S) == CHOOSE x \in S : \A y \in S : y <= x

\* C1: last-write-wins. When type_molecules succeeds, every atom carries the
\* type name of the last rule, in list order, whose pattern matches it.
C1_LastWriteWins ==
    (pc = "typed" /\ last.exc = None) =>
        \A a \in Atoms :
            /\ MatchingRules(match, atomtypes, a) # {}
            /\ molecules[a] =
                 atomtypes[Max(MatchingRules(match, atomtypes, a))][2]

\* C1 witness: a successful pass in which an atom is matched by two rules
\* with different names and carries the later one.
C1_Witness ==
    /\ pc = "typed"
    /\ last.exc = None
    /\ \E a \in Atoms : \E i, j \in MatchingRules(match, atomtypes, a) :
          /\ i < j
          /\ atomtypes[i][2] # atomtypes[j][2]
          /\ molecules[a] = atomtypes[j][2]

\* C2: coverage. type_molecules raises a TypingException exactly when some
\* atom is matched by no rule; the exception names a molecule and an
\* unmatched atom of it; a normal return leaves no atom with the empty type.
C2_Coverage ==
    pc = "typed" =>
        /\ (last.exc # None) <=>
              (\E a \in Atoms : MatchingRules(match, atomtypes, a) = {})
        /\ last.exc # None =>
              /\ last.exc[2] \in AtomsOf(last.exc[1])
              /\ MatchingRules(match, atomtypes, last.exc[2]) = {}
              /\ molecules[last.exc[2]] = EmptyType
        /\ last.exc = None => \A a \in Atoms : molecules[a] # EmptyType

\* C2 witness: a pass over a non-empty rule list that raised for an atom of
\* the second molecule, the first molecule being fully typed.
C2_Witness ==
    /\ pc = "typed"
    /\ atomtypes # <<>>
    /\ last.exc # None
    /\ last.exc[1] = 2
    /\ \A a \in AtomsOf(1) : molecules[a] # EmptyType

\* C14: one rule that matches every atom types the corpus with its name;
\* with no rule at all the pass raises for the first atom of the first
\* molecule, and every atom of the molecule handed to assignTypes carries
\* the empty type.
C14_SingleRuleThenNone ==
    pc = "typed" =>
        /\ (/\ Len(atomtypes) = 1
            /\ \A a \in Atoms : \A k \in 1 .. Len(atomtypes[1][1]) :
                   a \in match[atomtypes[1][1][k]]) =>
              /\ last.exc = None
              /\ \A a \in Atoms : molecules[a] = atomtypes[1][2]
        /\ atomtypes = <<>> =>
              /\ last.exc = <<1, 1>>
              /\ \A a \in AtomsOf(1) : molecules[a] = EmptyType

\* C14 witness: atoms that carried a type were handed to a pass with no
\* rule; it raised and left the first molecule's atoms with the empty type.
C14_Witness ==
    /\ pc = "typed"
    /\ atomtypes = <<>>
    /\ last.exc # None
    /\ \A a \in AtomsOf(1) : last.prior[a] # EmptyType
    /\ \A a \in AtomsOf(1) : molecules[a] = EmptyType

\* C18: type_molecules is history-free. Whatever types the atoms carried
\* before the pass (none, stale ones, or the result of this very pass), a
\* pass with the same rule list over the same corpus raises the same
\* exception or none, and leaves the same type on every atom of the
\* molecules it went through.
C18_AssignHistoryFree ==
    pc = "typed" =>
        \A prior \in PriorTypes \cup {molecules} :
            LET r == type_molecules(match, atomtypes, prior)
            IN  /\ r.exc = last.exc
                /\ \A a \in Atoms :
                      (last.exc = None \/ MolOf(a) <= last.exc[1]) =>
                          r.types[a] = molecules[a]

\* C18 witness: a pass over atoms that all carried a stale type succeeded
\* and left no stale type behind.
C18_Witness ==
    /\ pc = "typed"
    /\ last.exc = None
    /\ \A a \in Atoms : last.prior[a] = <<"stale">>
    /\ \A a \in Atoms : molecules[a] # <<"stale">>

\* ------------------------------------------------------------------------
\* Direct calls of read_typelist (specification SpecRead)
\* ------------------------------------------------------------------------

\* Most lines a file holds.
MaxLines == 2

\* The lines the files are made of.
FileLines ==
    {<<"\n">>,
     <<"%", " ", "c", "\n">>,
     <<"a", " ", "t", "\n">>,
     <<"b", "\t", "u">>,
     <<" ", "a", " ", " ", "u", " ", "%", "c", "\n">>,
     <<"a", "\n">>,
     <<"a", " ", "t", " ", "u", "\n">>,
     <<"a", " ", "%", "t", "\n">>,
     <<"a", "b", " ", "t", "u", "%", "%", "\n">>,
     <<"a", "%", "b", " ", "t", "\n">>,
     <<"a", " ", "t", " ", "%", "u", "\n">>}

\* The files: no filename, a name with no file, or a file of lines.
Files ==
    {NoFile, [given |-> TRUE, exists |-> FALSE, lines |-> <<>>]}
    \cup {[given |-> TRUE, exists |-> TRUE, lines |-> l] :
             l \in SeqsOf(FileLines, 0, MaxLines)}

InitRead ==
    /\ file \in Files
    /\ match = [p \in Primitives |-> Atoms]
    /\ atomtypes = <<>>
    /\ decorators = <<>>
    /\ molecules = [a \in Atoms |-> EmptyType]
    /\ reference = None
    /\ atom_type_matches = None
    /\ total_atom_type_matches = None
    /\ temperature = 0
    /\ pc = "reading"
    /\ iteration = 0
    /\ last = NoCall
    /\ basetypes = <<>>
    /\ caller_molecules = molecules

ReadTypelistCall ==
    /\ pc = "reading"
    /\ LET r == read_typelist(file)
       IN  last' = [op |-> "read_typelist", returned |-> r.returned,
                    typelist |-> r.typelist]
    /\ pc' = "read"
    /\ UNCHANGED <<match, atomtypes, decorators, molecules, reference,
                   atom_type_matches, total_atom_type_matches, temperature,
                   iteration, basetypes, caller_molecules, file>>

NextRead == ReadTypelistCall

SpecRead == InitRead /\ [][NextRead]_vars

\* Where the comment of a line starts: the position of its first '%', or
\* one past its end.
CommentStart(line) ==
    IF \E k \in 1 .. Len(line) : line[k] = "%"
    THEN CHOOSE k \in 1 .. Len(line) :
             line[k] = "%" /\ \A j \in 1 .. k - 1 : line[j] # "%"
    ELSE Len(line) + 1

\* A position outside the comment that holds a character of a word.
InWord(line, k) ==
    k \in 1 .. CommentStart(line) - 1 /\ line[k] \notin Whitespace

\* The positions where a word starts, and the word that starts at k.
WordStarts(line) ==
    {k \in 1 .. Len(line) : InWord(line, k) /\ ~InWord(line, k - 1)}

WordAt(line, k) ==
    SubSeq(line, k,
           CHOOSE e \in k .. Len(line) :
               /\ \A j \in k .. e : InWord(line, j)
               /\ ~InWord(line, e + 1))

\* The n-th smallest element of a set of numbers.
Nth(S, n) == CHOOSE x \in S : Cardinality({y \in S : y <= x}) = n

\* The lines of a file that hold exactly two words outside their comment,
\* and those that hold some words, but not two.
TwoWordLines(lines) ==
    {i \in 1 .. Len(lines) : Cardinality(WordStarts(lines[i])) = 2}

MalformedLines(lines) ==
    {i \in 1 .. Len(lines) : Cardinality(WordStarts(lines[i])) \notin {0, 2}}

\* C16: an unparsable file is fatal. read_typelist fails, instead of
\* returning a list, on a file with a line that is neither blank nor
\* comment-only nor made of two tokens once its comment is stripped.
C16_MalformedFileFails ==
    (pc = "read" /\ file.given /\ file.exists
     /\ MalformedLines(file.lines) # {}) =>
        last.returned = "Exception"

\* C17: read_typelist returns, in file order, one [pattern, typename] entry
\* for each line with exactly two tokens outside its comment, the entry
\* holding those two tokens, and nothing for any other line.
C17_ReadTypelist ==
    (pc = "read" /\ file.given /\ file.exists) =>
        LET two == TwoWordLines(file.lines)
        IN  /\ last.returned = "typelist"
            /\ Len(last.typelist) = Cardinality(two)
            /\ \A n \in 1 .. Len(last.typelist) :
                  LET line == file.lines[Nth(two, n)]
                  IN  last.typelist[n] =
                        <<WordAt(line, Nth(WordStarts(line), 1)),
                          WordAt(line, Nth(WordStarts(line), 2))>>

\* C17 witness: a file of two different two-token lines, one with an inline
\* comment, was read into two entries in file order.
C17_Witness ==
    /\ pc = "read"
    /\ file.given /\ file.exists
    /\ Len(file.lines) = 2
    /\ \E k \in 1 .. Len(file.lines[2]) : file.lines[2][k] = "%"
    /\ Len(last.typelist) = 2
    /\ last.typelist[1] = <<<<"b">>, <<"u">>>>
    /\ last.typelist[2] # last.typelist[1]

\* ------------------------------------------------------------------------
\* Direct calls of best_match_reference_types (specification SpecScore)
\* ------------------------------------------------------------------------

ScoreRules ==
    {Rule(<<"*">>, <<"g">>), Rule(<<"#6">>, <<"c">>), Rule(<<"X4">>, <<"r">>)}

RefTypes == {<<"g">>, <<"r">>}

ReferenceLabelings == [Atoms -> RefTypes]

\* A rule list whose patterns and type names are pairwise distinct.
WellFormed(typelist) ==
    \A i, j \in 1 .. Len(typelist) :
        i # j => (typelist[i][1] # typelist[j][1]
                  /\ typelist[i][2] # typelist[j][2])

\* The inputs of a call: a well-formed rule list, the types it assigns to a
\* corpus it covers, and a reference typing of the same atoms.
InitScore ==
    /\ match \in AssignOracles
    /\ atomtypes \in {t \in SeqsOf(ScoreRules, 1, MaxTypes) : WellFormed(t)}
    /\ LET r == type_molecules(match, atomtypes, [a \in Atoms |-> EmptyType])
       IN  /\ r.exc = None
           /\ molecules = r.types
    /\ reference \in ReferenceLabelings
    /\ decorators = <<>>
    /\ atom_type_matches = None
    /\ total_atom_type_matches = None
    /\ temperature = 0
    /\ pc = "scoring"
    /\ iteration = 0
    /\ last = NoCall
    /\ basetypes = <<>>
    /\ caller_molecules = molecules
    /\ file = NoFile

BestMatchCall ==
    /\ pc = "scoring"
    /\ \E r \in best_match_reference_types(atomtypes, molecules, reference) :
          last' = [op |-> "best_match", matches |-> r.matches,
                   total |-> r.total]
    /\ pc' = "scored"
    /\ UNCHANGED <<match, atomtypes, decorators, molecules, reference,
                   atom_type_matches, total_atom_type_matches, temperature,
                   iteration, basetypes, caller_molecules, file>>

NextScore == BestMatchCall

SpecScore == InitScore /\ [][NextScore]_vars

\* C3: scoring a labeling against itself (same names, same type on every
\* atom) returns a total equal to the number of atoms.
C3_SelfScore ==
    (pc = "scored" /\ \A a \in Atoms : molecules[a] = reference[a]) =>
        last.total = NAtoms

\* The partners recorded for a current type / the current types recorded
\* for a partner, in a match table.
PartnersOf(matches, c) ==
    {matches[i][2] : i \in {k \in 1 .. Len(matches) :
                               matches[k][1] = c /\ matches[k][2] # None}}

CurrentsOf(matches, r) ==
    {matches[i][1] : i \in {k \in 1 .. Len(matches) : matches[k][2] = r}}

\* C4: matching validity. The total is at most the number of atoms, no
\* current type has two partners, no partner has two current types, and
\* every partner is a reference type.
C4_MatchingValid ==
    pc = "scored" =>
        /\ last.total <= NAtoms
        /\ \A i \in 1 .. Len(last.matches) :
              last.matches[i][2] # None =>
                 /\ last.matches[i][2] \in ReferenceAtomtypes(reference)
                 /\ Cardinality(PartnersOf(last.matches,
                                           last.matches[i][1])) = 1
                 /\ Cardinality(CurrentsOf(last.matches,
                                           last.matches[i][2])) = 1

\* The one-to-one partial correspondences between current types (left) and
\* reference types (right), as sets of pairs <<current, reference>>.
Correspondences(names, refnames) ==
    {P \in SUBSET (SeqRange(names) \X refnames) :
        \A x, y \in P : x # y => (x[1] # y[1] /\ x[2] # y[2])}

RECURSIVE Agreement(_, _, _)
Agreement(types, ref, P) ==
    IF P = {} THEN 0
    ELSE LET x == CHOOSE y \in P : TRUE
         IN  atoms_in_common(types, ref, x[1], x[2])
             + Agreement(types, ref, P \ {x})

\* The greatest agreement a one-to-one correspondence can reach.
OptimalAgreement(typelist, types, ref) ==
    Max({Agreement(types, ref, P) :
            P \in Correspondences(CurrentAtomtypes(typelist),
                                  ReferenceAtomtypes(ref))})

\* C5: matching optimality. The total returned is the greatest agreement
\* any one-to-one correspondence of current and reference types reaches.
C5_MatchingOptimal ==
    pc = "scored" =>
        last.total = OptimalAgreement(atomtypes, molecules, reference)

\* The names a renaming may give to current types: the reference names and
\* names that are no reference type.
RenameTargets == RefTypes \cup {<<"c">>, <<"q">>}

\* The injective renamings of the type names of a rule list.
Renamings(typelist) ==
    {f \in [SeqRange(CurrentAtomtypes(typelist)) -> RenameTargets] :
        \A x, y \in DOMAIN f : x # y => f[x] # f[y]}

RenamedList(typelist, f) ==
    [i \in 1 .. Len(typelist) |-> Rule(typelist[i][1], f[typelist[i][2]])]

RenamedTypes(types, f) == [a \in Atoms |-> f[types[a]]]

\* The totals best_match_reference_types can return.
TotalsOf(typelist, types, ref) ==
    {r.total : r \in best_match_reference_types(typelist, types, ref)}

\* C15: the score does not depend on the names of the current types. Under
\* every injective renaming of the current names, names of reference types
\* included, best_match_reference_types returns the same totals.
C15_RenamingInvariant ==
    pc = "scored" =>
        \A f \in Renamings(atomtypes) :
            /\ last.total \in TotalsOf(atomtypes, molecules, reference)
            /\ TotalsOf(RenamedList(atomtypes, f),
                        RenamedTypes(molecules, f), reference)
                 = TotalsOf(atomtypes, molecules, reference)

\* C26: shape of the match table. It has one entry per rule, in list order,
\* headed by the rule's name; an entry either has no partner and no weight,
\* or names a reference type and the number of atoms that carry both the
\* current and the reference type; no pair is entered twice; the total is
\* the sum of the weights of the entries that have a partner.
C26_MatchTableShape ==
    pc = "scored" =>
        LET t == last.matches
            paired == {i \in 1 .. Len(t) : t[i][2] # None}
        IN  /\ Len(t) = Len(atomtypes)
            /\ \A i \in 1 .. Len(t) :
                  /\ t[i][1] = atomtypes[i][2]
                  /\ t[i][2] = None => t[i][3] = None
                  /\ t[i][2] # None =>
                        /\ t[i][2] \in ReferenceAtomtypes(reference)
                        /\ t[i][3] = atoms_in_common(molecules, reference,
                                                     t[i][1], t[i][2])
            /\ \A i, j \in paired :
                  i # j => {t[i][1], t[i][2]} # {t[j][1], t[j][2]}
            /\ last.total = TotalFrom([i \in 1 .. Len(t) |->
                                         IF i \in paired THEN t[i]
                                         ELSE <<t[i][1], None, 0>>], 1)

\* ------------------------------------------------------------------------
\* AtomTypeSampler.sample_atomtypes
\* ------------------------------------------------------------------------

\* An optional integer: None, or the one-element sequence holding it.
Some(n) == <<n>>

\* list.remove(x): the list without the first element equal to x.
RemoveNothing(list, x) == list

RemoveLast(list, x) == SubSeq(list, 1, Len(list) - 1)

RemoveFirst(list, x) ==
    LET i == CHOOSE k \in 1 .. Len(list) :
                 list[k] = x /\ \A j \in 1 .. k - 1 : list[j] # x
    IN  [k \in 1 .. Len(list) - 1 |-> IF k < i THEN list[k] ELSE list[k + 1]]

\* list.insert(i, x) with a 0-based index i <= len(list).
InsertAtEnd(list, i, x) == Append(list, x)

InsertAt(list, i, x) ==
    [k \in 1 .. Len(list) + 1 |->
        IF k <= i THEN list[k] ELSE IF k = i + 1 THEN x ELSE list[k - 1]]

\* compute_type_statistics: atom_typecounts[typename].
compute_type_statistics(types, typename) ==
    Cardinality({a \in Atoms : types[a] = typename})

\* copy.deepcopy(self.molecules) at the start of a proposal: what
\* self.molecules holds once the proposal's molecules hold typed. Typing a
\* deep copy leaves the sampler's own molecules as they were.
MoleculesAfterProposalShared(own, typed) == typed

MoleculesAfterProposal(own, typed) == own

\* "numpy.random.uniform() < numpy.exp(log_P_accept)" for a uniform draw in
\* [0, 1): certain when log_P_accept >= 0, else decided by the draw (below).
UniformBelowExpStrict(diff, below) == diff > 0 \/ below

UniformBelowExp(diff, below) == IF diff >= 0 THEN TRUE ELSE below

\* effective_temperature
EffectiveTemperature(T) == IF T = 0 THEN 1 ELSE NAtoms * T

\* The acceptance test: log_P_accept = diff / effective_temperature has the
\* sign of diff * effective_temperature.
AcceptsNoWorse(proposed_total, current_total, T, below) ==
    proposed_total >= current_total

Accepts(proposed_total, current_total, T, below) ==
    LET diff == proposed_total - current_total
    IN  (diff * EffectiveTemperature(T) > 0) \/ UniformBelowExp(diff, below)

\* Whether a TypingException raised by type_molecules inside sample_atomtypes
\* leaves the call: both calls sit in a try block whose except clause marks
\* the proposal invalid.
TypingExceptionUncaught(exc) == exc # None

TypingExceptionEscapes(exc) == FALSE

\* The proposal of a destroy move on the rule at (1-based) position i.
DestroyProposalUnchecked(m, typelist, types, i) ==
    LET proposed == RemoveFirst(typelist, typelist[i])
        r == type_molecules(m, proposed, types)
    IN  [atomtypes |-> proposed, types |-> r.types, exc |-> r.exc,
         valid |-> TRUE,
         calls |-> <<"type_molecules">>]

DestroyProposal(m, typelist, types, i) ==
    LET proposed == RemoveFirst(typelist, typelist[i])
        r == type_molecules(m, proposed, types)
    IN  [atomtypes |-> proposed, types |-> r.types, exc |-> r.exc,
         valid |-> r.exc = None,
         calls |-> <<"type_molecules">>]

\* "Check if proposed atomtype is already in set": existing_atomtypes holds
\* the SMARTS strings of self.atomtypes.
AlreadyExistsNever(typelist, proposed_atomtype) == FALSE

AlreadyExists(typelist, proposed_atomtype) ==
    \E k \in 1 .. Len(typelist) : typelist[k][1] = proposed_atomtype

\* The proposal of a create move: rule i refined by decorator d.
CreateProposalChildFirst(m, typelist, decs, types, i, d) ==
    LET proposed_atomtype == typelist[i][1] \o decs[d][1]
        proposed_typename == typelist[i][2] \o decs[d][2]
        proposed == InsertAt(typelist, i - 1, Rule(proposed_atomtype,
                                                   proposed_typename))
        r == type_molecules(m, proposed, types)
    IN  IF AlreadyExists(typelist, proposed_atomtype)
        THEN [atomtypes |-> typelist, types |-> types, exc |-> None,
              valid |-> FALSE, calls |-> <<>>]
        ELSE [atomtypes |-> proposed, types |-> r.types, exc |-> r.exc,
              valid |-> r.exc = None,
              calls |-> <<"type_molecules">>]

CreateProposal(m, typelist, decs, types, i, d) ==
    LET proposed_atomtype == typelist[i][1] \o decs[d][1]
        proposed_typename == typelist[i][2] \o decs[d][2]
        exists == AlreadyExists(typelist, proposed_atomtype)
        proposed == InsertAt(typelist, i, Rule(proposed_atomtype,
                                               proposed_typename))
        r == type_molecules(m, proposed, types)
        unused == compute_type_statistics(r.types, proposed_typename) = 0
        parent_unused == compute_type_statistics(r.types, typelist[i][2]) = 0
    IN  IF exists
        THEN [atomtypes |-> typelist, types |-> types, exc |-> None,
              valid |-> FALSE, calls |-> <<>>]
        ELSE [atomtypes |-> proposed, types |-> r.types, exc |-> r.exc,
              valid |-> r.exc = None /\ ~unused /\ ~parent_unused,
              calls |-> IF r.exc = None
                        THEN <<"type_molecules", "compute_type_statistics">>
                        ELSE <<"type_molecules">>]

\* ------------------------------------------------------------------------
\* The sampler: AtomTypeSampler.__init__, run (specification Spec)
\* ------------------------------------------------------------------------

BaseRules == {Rule(<<"*">>, <<"g">>), Rule(<<"#6">>, <<"c">>)}

\* The base type files: well-formed lists over BaseRules, the empty file
\* included.
BaseTypeLists ==
    {t \in SeqsOf(BaseRules, 0, Cardinality(BaseRules)) : WellFormed(t)}

\* The decorator file, when it is not empty: two decorators share a name,
\* two share a fragment.
DecoratorList ==
    <<Rule(<<"X4">>, <<"x">>), Rule(<<"H1">>, <<"x">>),
      Rule(<<"X4">>, <<"y">>)>>

\* The corpora: "#6" matches all atoms but the last; "X4" matches no atom,
\* the first atom or every atom; "H1" matches the second atom or none.
SamplerOracles ==
    {m \in Oracles : /\ m["#6"] = Atoms \ {NAtoms}
                     /\ m["X4"] \in {{}, {1}, Atoms}
                     /\ m["H1"] \in {{}, {2}}}

\* The reference typings: the first k atoms are "r", the others "g".
SamplerReferences ==
    {[a \in Atoms |-> IF a <= k THEN <<"r">> ELSE <<"g">>] : k \in 0 .. NAtoms}

Temperatures == {0, 1}

Init ==
    /\ match \in SamplerOracles
    /\ atomtypes \in BaseTypeLists
    /\ decorators \in {<<>>, DecoratorList}
    /\ molecules = [a \in Atoms |-> EmptyType]
    /\ reference \in {None} \cup SamplerReferences
    /\ atom_type_matches = None
    /\ total_atom_type_matches = None
    /\ temperature \in Temperatures
    /\ pc = "start"
    /\ iteration = 0
    /\ last = NoCall
    /\ basetypes = atomtypes
    /\ caller_molecules = molecules
    /\ file = NoFile

\* self.molecules = copy.deepcopy(molecules): what the caller's molecules
\* hold once the sampler's molecules hold typed. Typing a deep copy leaves
\* the caller's molecules as they were given.
CallerMoleculesShared(given, typed) == typed

CallerMolecules(given, typed) == given

\* Whether a TypingException raised by type_molecules in __init__ leaves the
\* constructor: the call is not inside a try block.
ConstructionSwallows(exc) == FALSE

ConstructionRaises(exc) == exc # None

\* AtomTypeSampler.__init__ followed, when it returns, by the call of run.
Construct ==
    /\ pc = "start"
    /\ LET r == type_molecules(match, atomtypes, molecules)
       IN  /\ molecules' = r.types
           /\ caller_molecules' = CallerMolecules(caller_molecules, r.types)
           /\ IF ConstructionRaises(r.exc)
              THEN /\ pc' = "no sampler"
                   /\ last' = [op |-> "__init__",
                               returned |-> "TypingException"]
                   /\ UNCHANGED <<atom_type_matches,
                                  total_atom_type_matches>>
              ELSE /\ pc' = "running"
                   /\ last' = [op |-> "__init__", returned |-> "None"]
                   /\ IF reference = None
                      THEN UNCHANGED <<atom_type_matches,
                                       total_atom_type_matches>>
                      ELSE \E s \in best_match_reference_types(
                                        atomtypes, r.types, reference) :
                              /\ atom_type_matches' = s.matches
                              /\ total_atom_type_matches' = Some(s.total)
    /\ UNCHANGED <<match, atomtypes, decorators, reference, temperature,
                   iteration, basetypes, file>>

\* What the call recorded in last holds for a sample_atomtypes call.
SampleCall(move, i, d, returned, calls, proposed_total) ==
    [op |-> "sample_atomtypes", move |-> move, index |-> i,
     decorator |-> d,
     returned |-> returned, calls |-> calls,
     proposed_total |-> proposed_total,
     current_total |-> total_atom_type_matches]

\* A sample_atomtypes call that reached the acceptance test also records
\* log_P_accept, as the pair <<numerator, effective_temperature>>, and
\* whether a uniform draw from [0, 1) is below exp(log_P_accept): it always
\* is when log_P_accept >= 0.
ScoredCall(move, i, d, returned, calls, proposed_total, below) ==
    LET diff == proposed_total - total_atom_type_matches[1]
    IN  SampleCall(move, i, d, returned, calls, Some(proposed_total))
        @@ [log_P_accept |-> <<diff, EffectiveTemperature(temperature)>>,
            below |-> IF diff >= 0 THEN TRUE ELSE below]

\* The rest of sample_atomtypes once proposal p of (move, i, d) is built:
\* the validity check, the score and the acceptance test.
Decide(move, i, d, p) ==
    LET own == MoleculesAfterProposal(molecules, p.types)
        scored == Append(p.calls, "best_match_reference_types")
    IN  IF TypingExceptionEscapes(p.exc)
        THEN /\ pc' = "raised"
             /\ last' = SampleCall(move, i, d, "TypingException", p.calls,
                                   None)
             /\ molecules' = own
             /\ UNCHANGED <<atomtypes, atom_type_matches,
                            total_atom_type_matches>>
        ELSE IF ~p.valid
        THEN /\ pc' = "running"
             /\ last' = SampleCall(move, i, d, "False", p.calls, None)
             /\ molecules' = own
             /\ UNCHANGED <<atomtypes, atom_type_matches,
                            total_atom_type_matches>>
        ELSE IF reference = None
        THEN /\ pc' = "raised"
             /\ last' = SampleCall(move, i, d, "TypeError", scored, None)
             /\ molecules' = own
             /\ UNCHANGED <<atomtypes, atom_type_matches,
                            total_atom_type_matches>>
        ELSE \E s \in best_match_reference_types(p.atomtypes, p.types,
                                                 reference) :
             \E below \in BOOLEAN :
                /\ pc' = "running"
                /\ IF Accepts(s.total, total_atom_type_matches[1],
                              temperature, below)
                   THEN /\ last' = ScoredCall(move, i, d, "True", scored,
                                              s.total, below)
                        /\ atomtypes' = p.atomtypes
                        /\ molecules' = p.types
                        /\ atom_type_matches' = s.matches
                        /\ total_atom_type_matches' = Some(s.total)
                   ELSE /\ last' = ScoredCall(move, i, d, "False", scored,
                                              s.total, below)
                        /\ molecules' = own
                        /\ UNCHANGED <<atomtypes, atom_type_matches,
                                       total_atom_type_matches>>

\* One iteration of run: a call of sample_atomtypes with the random draws
\* move ("random.random() < 0.5"), i and d (random.randint) and below
\* (whether numpy.random.uniform() falls below exp(log_P_accept)). With an
\* empty decorator list, random.randint(0, ndecorators-1) of the create
\* branch raises ValueError. (A sampler that exists has a rule: its corpus
\* has atoms and they are all typed.)
SampleAtomtypes ==
    /\ pc = "running"
    /\ iteration < MaxIter
    /\ iteration' = iteration + 1
    /\ \/ \E i \in 1 .. Len(atomtypes) :
             Decide("destroy", i, 0,
                    DestroyProposal(match, atomtypes, molecules, i))
       \/ \E i \in 1 .. Len(atomtypes), d \in 1 .. Len(decorators) :
             Decide("create", i, d,
                    CreateProposal(match, atomtypes, decorators, molecules,
                                   i, d))
       \/ /\ decorators = <<>>
          /\ \E i \in 1 .. Len(atomtypes) :
                last' = SampleCall("create", i, 0, "ValueError", <<>>, None)
          /\ pc' = "raised"
          /\ UNCHANGED <<atomtypes, molecules, atom_type_matches,
                         total_atom_type_matches>>
    /\ UNCHANGED <<match, decorators, reference, temperature, basetypes,
                   caller_molecules, file>>

\* The loop of run has performed the requested iterations: run returns.
RunReturns ==
    /\ pc = "running"
    /\ iteration = MaxIter
    /\ pc' = "done"
    /\ UNCHANGED <<match, atomtypes, decorators, molecules, reference,
                   atom_type_matches, total_atom_type_matches, temperature,
                   iteration, last, basetypes, caller_molecules, file>>

Next == Construct \/ SampleAtomtypes \/ RunReturns

Spec == Init /\ [][Next]_vars

\* ------------------------------------------------------------------------
\* Claims about the sampler
\* ------------------------------------------------------------------------

\* A step that is one call of sample_atomtypes.
SampleStep == pc = "running" /\ iteration' = iteration + 1

\* C6: rejection is free of side effects. A call of sample_atomtypes that
\* returns False leaves the rule list, the type of every atom, the match
\* table and the total as they were.
C6_RejectionLeavesState ==
    [][(SampleStep /\ last'.returned = "False") =>
          /\ atomtypes' = atomtypes
          /\ molecules' = molecules
          /\ atom_type_matches' = atom_type_matches
          /\ total_atom_type_matches' = total_atom_type_matches]_vars

\* C6 witness: a create proposal that was typed and scored (its copy of the
\* molecules carries the new type) and then rejected.
C6_Witness ==
    /\ last.op = "sample_atomtypes"
    /\ last.move = "create"
    /\ last.returned = "False"
    /\ last.proposed_total # None

\* C7: type names stay unique. The base lists are well-formed, and after
\* any number of iterations no two rules of self.atomtypes share a name.
C7_NamesUnique ==
    pc \in {"running", "done"} =>
        \A i, j \in 1 .. Len(atomtypes) :
            i # j => atomtypes[i][2] # atomtypes[j][2]

\* Some atom is matched by no rule of the list.
Insufficient(m, typelist) ==
    \E a \in Atoms : MatchingRules(m, typelist, a) = {}

\* C8: construction fails on an insufficient base list. __init__ raises
\* exactly when the base list leaves an atom without a matching rule, and a
\* sampler that exists starts with a type on every atom.
C8_ConstructionChecksCoverage ==
    /\ pc = "no sampler" => Insufficient(match, atomtypes)
    /\ (pc # "start" /\ iteration = 0 /\ Insufficient(match, atomtypes)) =>
          (pc = "no sampler" /\ last.returned = "TypingException")
    /\ (pc \notin {"start", "no sampler"} /\ iteration = 0) =>
          \A a \in Atoms : molecules[a] # EmptyType

\* C8 witness: a non-empty base list that leaves an atom unmatched made
\* __init__ raise.
C8_Witness ==
    /\ pc = "no sampler"
    /\ atomtypes # <<>>
    /\ last.returned = "TypingException"

\* The type of atom a under a rule list, as the name of the last rule that
\* matches it (the empty type when none does).
LastMatchType(m, typelist, a) ==
    IF MatchingRules(m, typelist, a) = {} THEN EmptyType
    ELSE typelist[Max(MatchingRules(m, typelist, a))][2]

\* The rule list without position i.
WithoutIndex(typelist, i) ==
    [k \in 1 .. Len(typelist) - 1 |->
        IF k < i THEN typelist[k] ELSE typelist[k + 1]]

\* The rule list with rule r put right after position i.
WithAfter(typelist, i, r) ==
    SubSeq(typelist, 1, i) \o <<r>> \o SubSeq(typelist, i + 1, Len(typelist))

\* The ways a proposal fails: a destroy whose remaining rules leave an atom
\* unmatched; a create whose pattern is already a rule's pattern, whose rule
\* list leaves an atom unmatched, or that leaves the new or the parent type
\* name on no atom.
ProposalFails(m, typelist, decs, move, i, d) ==
    IF move = "destroy"
    THEN Insufficient(m, WithoutIndex(typelist, i))
    ELSE IF d \notin 1 .. Len(decs) THEN FALSE
    ELSE LET smarts == typelist[i][1] \o decs[d][1]
             name == typelist[i][2] \o decs[d][2]
             new == WithAfter(typelist, i, Rule(smarts, name))
         IN  \/ \E k \in 1 .. Len(typelist) : typelist[k][1] = smarts
             \/ Insufficient(m, new)
             \/ \A a \in Atoms : LastMatchType(m, new, a) # name
             \/ \A a \in Atoms : LastMatchType(m, new, a) # typelist[i][2]

C10_NoWorseAccepted ==
    [][(/\ SampleStep
        /\ last'.proposed_total # None
        /\ last'.proposed_total[1] >= total_atom_type_matches[1]) =>
          /\ last'.returned = "True"
          /\ total_atom_type_matches' = last'.proposed_total]_vars

\* C10 witness: at temperature 0, a proposal with a total equal to the
\* current one was accepted.
C10_Witness ==
    /\ last.op = "sample_atomtypes"
    /\ temperature = 0
    /\ last.proposed_total # None
    /\ last.proposed_total = last.current_total
    /\ last.returned = "True"

\* C11: base atom types cannot be destroyed. Whatever iterations have run,
\* every rule read from the basetypes file is still a rule of
\* self.atomtypes.
C11_BaseTypesKept ==
    pc \in {"running", "raised", "done"} =>
        \A k \in 1 .. Len(basetypes) :
            \E j \in 1 .. Len(atomtypes) : atomtypes[j] = basetypes[k]

\* C12: without reference molecules no likelihood is employed. An iteration
\* of a sampler built without reference molecules whose proposal does not
\* fail is decided: sample_atomtypes returns True or False, and run goes on.
C12_NoReferenceRuns ==
    [][(/\ SampleStep
        /\ reference = None
        /\ last'.returned # "ValueError"
        /\ ~ProposalFails(match, atomtypes, decorators, last'.move,
                          last'.index, last'.decorator)) =>
          (last'.returned \in {"True", "False"} /\ pc' = "running")]_vars

\* C13: run(n) performs exactly n iterations, each ending in accept or
\* reject, and then returns: every call of sample_atomtypes returns True or
\* False, no exception leaves run, and run has returned only after MaxIter
\* iterations.
C13_RunCountsIterations ==
    /\ pc # "raised"
    /\ pc = "done" => iteration = MaxIter
    /\ last.op = "sample_atomtypes" => last.returned \in {"True", "False"}

\* C19: the caller's inputs are never mutated. No step of the constructor
\* or of run changes the types on the molecules the caller passed in, nor
\* the reference typing.
C19_CallerInputsKept ==
    [][/\ caller_molecules' = caller_molecules
       /\ reference' = reference]_vars

\* C19 witness: after construction and an accepted proposal the sampler's
\* molecules are typed and the caller's still carry no type.
C19_Witness ==
    /\ pc \in {"running", "done"}
    /\ last.op = "sample_atomtypes"
    /\ last.returned = "True"
    /\ reference # None
    /\ \A a \in Atoms : molecules[a] # EmptyType
    /\ \A a \in Atoms : caller_molecules[a] = EmptyType

\* C20: duplicate-label guard. A create move whose new type name is already
\* the name of a rule of self.atomtypes returns False at once: neither
\* type_molecules nor best_match_reference_types is called.
C20_DuplicateLabelGuard ==
    [][(/\ SampleStep
        /\ last'.move = "create"
        /\ last'.decorator # 0
        /\ \E k \in 1 .. Len(atomtypes) :
              atomtypes[k][2] = atomtypes[last'.index][2]
                                   \o decorators[last'.decorator][2]) =>
          (last'.returned = "False" /\ last'.calls = <<>>)]_vars

\* Rule k of a list is used: it gives its name to some atom, being the last
\* rule of the list that matches it.
RuleUsed(m, typelist, k) ==
    \E a \in Atoms :
        /\ MatchingRules(m, typelist, a) # {}
        /\ Max(MatchingRules(m, typelist, a)) = k

\* C21: zero-coverage guard. A create move that leaves the new type name or
\* the parent's type name on no atom returns False without scoring; and
\* after an accepted create both the new rule and its parent are used by at
\* least one atom.
C21_ZeroCoverageGuard ==
    [][(SampleStep /\ last'.move = "create" /\ last'.decorator # 0) =>
          LET i == last'.index
              name == atomtypes[i][2] \o decorators[last'.decorator][2]
              p == CreateProposal(match, atomtypes, decorators, molecules,
                                  i, last'.decorator)
          IN  /\ (/\ p.exc = None
                  /\ \/ \A a \in Atoms : p.types[a] # name
                     \/ \A a \in Atoms : p.types[a] # atomtypes[i][2]) =>
                    (last'.returned = "False"
                     /\ last'.proposed_total = None)
              /\ last'.returned = "True" =>
                    /\ RuleUsed(match, atomtypes', i)
                    /\ RuleUsed(match, atomtypes', i + 1)]_vars

\* C22: a destroy move whose remaining rules leave some atom without a
\* matching rule returns False at once: best_match_reference_types is not
\* called, no acceptance test is made, and the sampler's state is as it was.
C22_DestroyRejectedUnscored ==
    [][(/\ SampleStep
        /\ last'.move = "destroy"
        /\ Insufficient(match, WithoutIndex(atomtypes, last'.index))) =>
          /\ last'.returned = "False"
          /\ last'.calls = <<"type_molecules">>
          /\ last'.proposed_total = None
          /\ pc' = "running"
          /\ atomtypes' = atomtypes
          /\ molecules' = molecules
          /\ total_atom_type_matches' = total_atom_type_matches]_vars

\* C22 witness: with reference molecules given, the destroy of the only
\* rule that matches the last atom was rejected without a score.
C22_Witness ==
    /\ pc = "running"
    /\ reference # None
    /\ last.op = "sample_atomtypes"
    /\ last.move = "destroy"
    /\ atomtypes[last.index][1] = <<"*">>
    /\ last.returned = "False"
    /\ last.proposed_total = None
    /\ Len(atomtypes) >= 2

\* C23: refine construction. The rule list of a create proposal, as it
\* stands once the proposal is accepted, is the current list with one new
\* rule right after the chosen rule R, every other rule in its place and
\* order; the new pattern is R's pattern and the decorator's fragment, the
\* new name R's name followed by the decorator's name.
C23_RefineConstruction ==
    [][(SampleStep /\ last'.move = "create" /\ last'.returned = "True") =>
          LET i == last'.index
              R == atomtypes[i]
              D == decorators[last'.decorator]
          IN  /\ Len(atomtypes') = Len(atomtypes) + 1
              /\ \A k \in 1 .. i : atomtypes'[k] = atomtypes[k]
              /\ atomtypes'[i + 1] = Rule(R[1] \o D[1], R[2] \o D[2])
              /\ \A k \in i + 1 .. Len(atomtypes) :
                    atomtypes'[k + 1] = atomtypes[k]]_vars

\* C23 witness: an accepted create put its rule between its parent and a
\* rule that followed the parent.
C23_Witness ==
    /\ last.op = "sample_atomtypes"
    /\ last.move = "create"
    /\ last.returned = "True"
    /\ last.index + 1 < Len(atomtypes)
    /\ atomtypes[last.index + 1][2]
         = atomtypes[last.index][2] \o decorators[last.decorator][2]

\* The atoms a pattern matches, read off the oracle.
MatchedBy(smarts) ==
    {a \in Atoms : \A k \in 1 .. Len(smarts) : a \in match[smarts[k]]}

\* C24: refine splits only the parent's atoms. When a create proposal on
\* rule R has been typed, the atoms that carry the new name are exactly
\* those that carried R's name and match the new pattern; the other atoms
\* that carried R's name still do; every other atom keeps its name.
C24_RefineSplitsParent ==
    [][(SampleStep /\ last'.move = "create" /\ last'.decorator # 0) =>
          LET i == last'.index
              D == decorators[last'.decorator]
              smarts == atomtypes[i][1] \o D[1]
              name == atomtypes[i][2] \o D[2]
              p == CreateProposal(match, atomtypes, decorators, molecules,
                                  i, last'.decorator)
          IN  (last'.calls # <<>> /\ p.exc = None) =>
                 \A a \in Atoms :
                    /\ p.types[a] = name <=>
                          (molecules[a] = atomtypes[i][2]
                           /\ a \in MatchedBy(smarts))
                    /\ (molecules[a] = atomtypes[i][2]
                        /\ a \notin MatchedBy(smarts)) =>
                          p.types[a] = atomtypes[i][2]
                    /\ molecules[a] # atomtypes[i][2] =>
                          p.types[a] = molecules[a]]_vars

\* C25: Metropolis rule for worse proposals. For a validated proposal whose
\* total is below the current one, log_P_accept is the difference over the
\* effective temperature (number of atoms times temperature, or 1 at
\* temperature 0), and the proposal is accepted exactly when the uniform
\* draw falls below exp(log_P_accept).
C25_MetropolisWorse ==
    [][(/\ SampleStep
        /\ last'.proposed_total # None
        /\ last'.proposed_total[1] < total_atom_type_matches[1]) =>
          /\ last'.log_P_accept =
                <<last'.proposed_total[1] - total_atom_type_matches[1],
                  IF temperature = 0 THEN 1 ELSE NAtoms * temperature>>
          /\ last'.returned = "True" <=> last'.below
          /\ last'.returned = "True" =>
                total_atom_type_matches' = last'.proposed_total]_vars

\* C25 witness: at temperature 0 a proposal with a lower total was accepted.
C25_Witness ==
    /\ last.op = "sample_atomtypes"
    /\ temperature = 0
    /\ last.proposed_total # None
    /\ last.proposed_total[1] < last.current_total[1]
    /\ last.returned = "True"
    /\ total_atom_type_matches = last.proposed_total

\* C27: the cached state is consistent. Between iterations, every atom
\* carries the name of the last rule of self.atomtypes that matches it, a
\* non-empty name of a rule of the list; and, when reference molecules were
\* given, the stored match table and total are a result of scoring these
\* types against the reference.
C27_CachedStateConsistent ==
    pc \in {"running", "done"} =>
        /\ \A a \in Atoms :
              /\ molecules[a] = LastMatchType(match, atomtypes, a)
              /\ molecules[a] # EmptyType
              /\ \E k \in 1 .. Len(atomtypes) :
                    atomtypes[k][2] = molecules[a]
        /\ reference # None =>
              \E r \in best_match_reference_types(atomtypes, molecules,
                                                  reference) :
                  /\ atom_type_matches = r.matches
                  /\ total_atom_type_matches = Some(r.total)

\* C27 witness: after a rejected proposal that had been typed and scored,
\* in the second or a later iteration, with an earlier proposal accepted
\* (the list is no longer the base list).
C27_Witness ==
    /\ pc = "running"
    /\ iteration >= 2
    /\ reference # None
    /\ atomtypes # basetypes
    /\ last.op = "sample_atomtypes"
    /\ last.returned = "False"
    /\ last.proposed_total # None
    /\ last.proposed_total # total_atom_type_matches

\* C28: rule-list size. An accepted create lengthens self.atomtypes by one
\* rule, an accepted destroy shortens it by one, a rejection leaves the list
\* as it was; the list of a sampler is never empty.
C28_RuleListSize ==
    [][SampleStep =>
          /\ atomtypes # <<>>
          /\ atomtypes' # <<>>
          /\ (last'.returned = "True" /\ last'.move = "create") =>
                Len(atomtypes') = Len(atomtypes) + 1
          /\ (last'.returned = "True" /\ last'.move = "destroy") =>
                Len(atomtypes') = Len(atomtypes) - 1
          /\ last'.returned = "False" => atomtypes' = atomtypes]_vars

\* C28 witness: an accepted destroy left a single rule.
C28_Witness ==
    /\ last.op = "sample_atomtypes"
    /\ last.move = "destroy"
    /\ last.returned = "True"
    /\ Len(atomtypes) = 1

\* C29: every live rule is used. If every rule of the base list is used at
\* construction, then after any iterations every rule of self.atomtypes is
\* the last matching rule of at least one atom.
C29_EveryRuleUsed ==
    (/\ pc \in {"running", "raised", "done"}
     /\ \A k \in 1 .. Len(basetypes) : RuleUsed(match, basetypes, k)) =>
        \A k \in 1 .. Len(atomtypes) : RuleUsed(match, atomtypes, k)

\* C30: pattern uniqueness. No two rules of self.atomtypes have the same
\* SMARTS, so an accepted destroy removes exactly the rule at the chosen
\* index and keeps the other rules in their order.
C30_PatternsUnique ==
    [][SampleStep =>
          /\ \A j, k \in 1 .. Len(atomtypes') :
                j # k => atomtypes'[j][1] # atomtypes'[k][1]
          /\ (last'.move = "destroy" /\ last'.returned = "True") =>
                atomtypes' = WithoutIndex(atomtypes, last'.index)]_vars

\* C30 witness: an accepted destroy took a rule out of the middle of a list
\* that an accepted create had lengthened.
C30_Witness ==
    /\ last.op = "sample_atomtypes"
    /\ last.move = "destroy"
    /\ last.returned = "True"
    /\ last.index > 1
    /\ last.index <= Len(atomtypes)

\* C31: an accepted destroy relabels only the destroyed rule's atoms. Every
\* atom that did not carry the name of the destroyed rule R keeps its name;
\* every atom that carried it now carries the name of the last of the
\* remaining rules that matches it.
C31_DestroyRelabelsOwnAtoms ==
    [][(SampleStep /\ last'.move = "destroy" /\ last'.returned = "True") =>
          LET R == atomtypes[last'.index]
              rest == WithoutIndex(atomtypes, last'.index)
          IN  \A a \in Atoms :
                 /\ molecules[a] # R[2] => molecules'[a] = molecules[a]
                 /\ molecules[a] = R[2] =>
                       /\ MatchingRules(match, rest, a) # {}
                       /\ molecules'[a] =
                            rest[Max(MatchingRules(match, rest, a))][2]]_vars

\* C31 witness: an accepted destroy changed the total, so it gave another
\* name to some atom, and the atoms carry two different names afterwards.
C31_Witness ==
    /\ last.op = "sample_atomtypes"
    /\ last.move = "destroy"
    /\ last.returned = "True"
    /\ last.proposed_total # last.current_total
    /\ \E a, b \in Atoms : molecules[a] # molecules[b]

\* Rule k of a list is a refinement of rule j: its pattern is rule j's
\* pattern and a decorator's fragment, its name rule j's name followed by
\* that decorator's name.
RefinementOf(typelist, decs, j, k) ==
    \E d \in 1 .. Len(decs) :
        typelist[k] = Rule(typelist[j][1] \o decs[d][1],
                           typelist[j][2] \o decs[d][2])

\* C32: child-after-parent ordering. Whenever self.atomtypes holds a rule
\* and a refinement of that rule, the refinement is the later of the two.
C32_ChildAfterParent ==
    pc \in {"running", "raised", "done"} =>
        \A j, k \in 1 .. Len(atomtypes) :
            RefinementOf(atomtypes, decorators, j, k) => j < k

\* C32 witness: a refinement and its parent with another rule between them.
C32_Witness ==
    /\ pc \in {"running", "done"}
    /\ \E j, k \in 1 .. Len(atomtypes) :
          /\ RefinementOf(atomtypes, decorators, j, k)
          /\ k > j + 1

==========================================================================
